---- MODULE Spec2Model ----
(***************************************************************************)
(* A model of the reply package (github.com/ooaklee/reply): the Replier,   *)
(* its error manifest, the transfer object it fills for every response and *)
(* the http.ResponseWriter it writes to.                                   *)
(*                                                                         *)
(* A call of NewHTTPResponse is a sequence of steps of one process         *)
(* (goroutine).  Every step reaches the transfer object through the        *)
(* Replier's field r.transferObject, as the code does.                     *)
(***************************************************************************)
EXTENDS Integers, Sequences, FiniteSets, TLC

\* ---------------------------------------------------------------- bounds
MaxErrs == 2
MaxPartials == 2
NumProcs == 2

Procs == 1..NumProcs

\* ------------------------------------------------------ program constants
defaultStatusCode == 200
defaultErrorsStatusCode == 400
StatusInternalServerError == 500
defaultResponseBody == "{}"

\* Go's nil for the types the request carries
NilWriter == 0
NoError == "nil"
NoData == "nil"
Unencodable == "chan"

\* ------------------------------------------------------------ strconv.Itoa
DigitChar(d) ==
    CASE d = 0 -> "0" [] d = 1 -> "1" [] d = 2 -> "2" [] d = 3 -> "3"
      [] d = 4 -> "4" [] d = 5 -> "5" [] d = 6 -> "6" [] d = 7 -> "7"
      [] d = 8 -> "8" [] d = 9 -> "9"

RECURSIVE Itoa(_)
Itoa(n) == IF n < 10 THEN <<DigitChar(n)>>
           ELSE Append(Itoa(n \div 10), DigitChar(n % 10))

\* ---------------------------------------------------------- the manifest
\* ErrorManifestItem
Item(title, detail, status, about, code) ==
    [Title |-> title, Detail |-> detail, StatusCode |-> status,
     About |-> about, Code |-> code, Meta |-> NoData]

ItemNotFound    == Item("Resource Not Found", "", 404, "", "")
ItemGone        == Item("Resource Gone", "It was here", 410, "", "G1")
ItemValidation  == Item("Validation Error", "Check your DoB, and try again.", 400, "", "100YT")
ItemUnavailable == Item("Service Unavailable", "", 503, "www.example.com/status", "")

\* the errors a caller may pass; "eMiss" is in no manifest
ErrKeys == {"e400", "e404", "e503", "eMiss"}

\* ErrorManifest: a map from the error's text to its item
EmptyManifest == [k \in {} |-> ItemNotFound]
PNotFound     == [k \in {"e404"} |-> ItemNotFound]
PSeveral      == [k \in {"e400", "e404", "e503"} |->
                    IF k = "e400" THEN ItemValidation
                    ELSE IF k = "e404" THEN ItemGone ELSE ItemUnavailable]

PartialManifests == {EmptyManifest, PNotFound, PSeveral}

ManifestLists == UNION {[1..n -> PartialManifests] : n \in 0..MaxPartials}

getManifestItems_emptyKey(manifest, finalManifest) ==
    IF DOMAIN manifest = {}
    THEN [k \in (DOMAIN finalManifest) \cup {""} |->
            IF k = "" THEN Item("", "", 0, "", "") ELSE finalManifest[k]]
    ELSE [k \in (DOMAIN finalManifest) \cup (DOMAIN manifest) |->
            IF k \in DOMAIN manifest THEN manifest[k] ELSE finalManifest[k]]

getManifestItems_lastKept(manifest, finalManifest) ==
    [k \in (DOMAIN finalManifest) \cup (DOMAIN manifest) |->
        IF k \in DOMAIN finalManifest THEN finalManifest[k] ELSE manifest[k]]

getManifestItems_oneKey(manifest, finalManifest) ==
    IF DOMAIN manifest = {} THEN finalManifest
    ELSE LET key == CHOOSE k \in DOMAIN manifest : TRUE
         IN  [k \in (DOMAIN finalManifest) \cup {key} |->
                 IF k = key THEN manifest[key] ELSE finalManifest[k]]

\* for key, item := range manifest { finalManifest[key] = item }
getManifestItems(manifest, finalManifest) ==
    [k \in (DOMAIN finalManifest) \cup (DOMAIN manifest) |->
        IF k \in DOMAIN manifest THEN manifest[k] ELSE finalManifest[k]]

RECURSIVE mergeFrom(_, _, _)
mergeFrom(manifests, i, merged) ==
    IF i > Len(manifests) THEN merged
    ELSE mergeFrom(manifests, i + 1, getManifestItems(manifests[i], merged))

mergeManifestCollections(manifests) == mergeFrom(manifests, 1, EmptyManifest)

getInternalServertErrorManifestItem_wrongStatus ==
    Item("Internal Server Error", "", 400, "", "")

getInternalServertErrorManifestItem ==
    Item("Internal Server Error", "", StatusInternalServerError, "", "")

\* manifestItem, ok := r.errorManifest[err.Error()]; the fallback if !ok
getErrorManifestItem_leak(manifest, err) ==
    IF err \in DOMAIN manifest THEN manifest[err]
    ELSE Item("Internal Server Error", err, StatusInternalServerError, "", "")

getErrorManifestItem_strict(manifest, err) ==
    IF err \in DOMAIN manifest THEN manifest[err]
    ELSE Item("Internal Server Error", "", 0, "", "")

getErrorManifestItem_noFallback(manifest, err) ==
    IF err \in DOMAIN manifest THEN manifest[err]
    ELSE Item("", "", 0, "", "")

getErrorManifestItem(manifest, err) ==
    IF err \in DOMAIN manifest THEN manifest[err]
    ELSE getInternalServertErrorManifestItem

\* ------------------------------------------------- the transfer objects
\* defaultReplyTransferObjectError
EmptyTOE == [Kind |-> "default", Title |-> "", Detail |-> "", About |-> "",
             Status |-> <<>>, Code |-> "", Meta |-> NoData]

\* a TransferObjectError of the caller's own (WithTransferObjectError): it
\* keeps the status of a 400 and of a 410 as the reason phrase
PhraseTOE == [EmptyTOE EXCEPT !.Kind = "phrase"]

TransferObjectErrors == {EmptyTOE, PhraseTOE}

StatusText(status) ==
    CASE status = 400 -> <<"B", "a", "d", " ", "R", "e", "q", "u", "e", "s", "t">>
      [] status = 410 -> <<"G", "o", "n", "e">>
      [] OTHER -> Itoa(status)

\* TransferObjectError.RefreshTransferObject: an empty one of the same kind
RefreshTransferObjectError(e) == IF e.Kind = "default" THEN EmptyTOE ELSE PhraseTOE

\* TransferObjectError.SetStatusCode: strconv.Itoa(status) in
\* defaultReplyTransferObjectError
SetErrorStatusCode(e, status) ==
    [e EXCEPT !.Status = IF e.Kind = "default" THEN Itoa(status)
                         ELSE StatusText(status)]

\* a fresh error object filled from a manifest item
convertErrorItemToTransferObjectError(toe, item) ==
    SetErrorStatusCode(
        [RefreshTransferObjectError(toe) EXCEPT !.Title = item.Title, !.Detail = item.Detail,
                         !.About = item.About, !.Code = item.Code,
                         !.Meta = item.Meta],
        item.StatusCode)

\* defaultReplyTransferObject
EmptyTO == [HTTPWriter |-> NilWriter, Headers |-> {}, StatusCode |-> 0,
            Errors |-> <<>>, Data |-> NoData, TokenOne |-> "",
            TokenTwo |-> "", Meta |-> {}]

RefreshTransferObject_reuse(t) == t

RefreshTransferObject(t) == EmptyTO

SetWriter(t, w)     == [t EXCEPT !.HTTPWriter = w]
GetWriter(t)        == t.HTTPWriter
SetStatusCode(t, c) == [t EXCEPT !.StatusCode = c]
GetStatusCode(t)    == t.StatusCode
SetMeta(t, m)       == [t EXCEPT !.Meta = m]
SetData(t, d)       == [t EXCEPT !.Data = d]
SetTokenOne(t, s)   == [t EXCEPT !.TokenOne = s]
SetTokenTwo(t, s)   == [t EXCEPT !.TokenTwo = s]
SetErrors(t, es)    == [t EXCEPT !.Errors = es]

\* json tags of defaultReplyTransferObjectError: every field is omitempty
EncodeError(e) ==
    [keys |-> (IF e.Title # "" THEN {"title"} ELSE {})
              \cup (IF e.Detail # "" THEN {"detail"} ELSE {})
              \cup (IF e.About # "" THEN {"about"} ELSE {})
              \cup (IF e.Status # <<>> THEN {"status"} ELSE {})
              \cup (IF e.Code # "" THEN {"code"} ELSE {})
              \cup (IF e.Meta # NoData THEN {"meta"} ELSE {}),
     title |-> e.Title, detail |-> e.Detail, about |-> e.About,
     status |-> e.Status, code |-> e.Code, meta |-> e.Meta]

Encode_noOmit(t) ==
    [keys |-> {"errors", "data", "access_token", "refresh_token", "meta"},
     errors |-> [i \in 1..Len(t.Errors) |-> EncodeError(t.Errors[i])],
     data |-> t.Data, access_token |-> t.TokenOne,
     refresh_token |-> t.TokenTwo, meta |-> t.Meta]

\* json tags of defaultReplyTransferObject: writer, headers and status code
\* are "-", every other field is omitempty
Encode(t) ==
    [keys |-> (IF Len(t.Errors) > 0 THEN {"errors"} ELSE {})
              \cup (IF t.Data # NoData THEN {"data"} ELSE {})
              \cup (IF t.TokenOne # "" THEN {"access_token"} ELSE {})
              \cup (IF t.TokenTwo # "" THEN {"refresh_token"} ELSE {})
              \cup (IF t.Meta # {} THEN {"meta"} ELSE {}),
     errors |-> [i \in 1..Len(t.Errors) |-> EncodeError(t.Errors[i])],
     data |-> t.Data, access_token |-> t.TokenOne,
     refresh_token |-> t.TokenTwo, meta |-> t.Meta]

\* ------------------------------------------------- the response writer
\* net/textproto.CanonicalMIMEHeaderKey on the header names used here
CanonicalMIMEHeaderKey(k) ==
    CASE k \in {"Content-type", "content-type", "Content-Type"} -> "Content-Type"
      [] k \in {"correlation-id", "Correlation-Id"} -> "Correlation-Id"
      [] OTHER -> k

\* httptest.NewRecorder(): Header is the header map, Code the status the
\* first WriteHeader gave (0: none yet), Body the values encoded onto the
\* writer, Log every operation on the writer in order
NewRecorder == [Header |-> {}, Code |-> 0, Body |-> <<>>, Log |-> <<>>]

\* writer.Header().Get(key)
HeaderGet(w, key) ==
    LET ck == CanonicalMIMEHeaderKey(key)
    IN  IF \E kv \in w.Header : kv[1] = ck
        THEN (CHOOSE kv \in w.Header : kv[1] = ck)[2]
        ELSE ""

\* writer.Header().Set(key, value)
HeaderSet(w, key, value) ==
    LET ck == CanonicalMIMEHeaderKey(key)
    IN  [w EXCEPT !.Header = {kv \in w.Header : kv[1] # ck} \cup {<<ck, value>>},
                  !.Log = Append(w.Log, "Header.Set")]

\* writer.WriteHeader(code): only the first call sets the status
WriteHeader(w, code) ==
    [w EXCEPT !.Code = IF w.Code = 0 THEN code ELSE w.Code,
              !.Log = Append(w.Log, "WriteHeader")]

\* net/http panics on a status code outside 100..999
ValidStatusCode(code) == code >= 100 /\ code <= 999

\* json.NewEncoder(writer).Encode(v)
EncodeOnto(w, t) ==
    [w EXCEPT !.Body = Append(w.Body, Encode(t)),
              !.Log = Append(w.Log, "Write")]

setDefaultContentType_always(w) ==
    HeaderSet(w, "Content-type", "application/json")

\* setDefaultContentType
setDefaultContentType(w) ==
    IF HeaderGet(w, "Content-type") = ""
    THEN HeaderSet(w, "Content-type", "application/json")
    ELSE w

\* for headerKey, headerValue := range h { Header().Set(...) }
RECURSIVE setEach(_, _)
setEach(w, h) ==
    IF h = {} THEN w
    ELSE LET kv == CHOOSE x \in h : TRUE
         IN  setEach(HeaderSet(w, kv[1], kv[2]), h \ {kv})

\* setHeaders: the default content type, then the caller's headers
setHeaders(w, h) == setEach(setDefaultContentType(w), h)

\* json.Marshal refuses a channel, a function or a complex number
Encodable(t) == t.Data # Unencodable

sendHTTPResponse_bodyFirst(w, t) ==
    IF Encodable(t) THEN WriteHeader(EncodeOnto(w, t), GetStatusCode(t))
    ELSE WriteHeader(w, GetStatusCode(t))

sendHTTPResponse_retry(w, t) ==
    LET sent == EncodeOnto(WriteHeader(w, GetStatusCode(t)), t)
    IN  EncodeOnto(WriteHeader(sent, GetStatusCode(t)), t)

sendHTTPResponse_fallback(w, t) ==
    IF Encodable(t) THEN EncodeOnto(WriteHeader(w, GetStatusCode(t)), t)
    ELSE EncodeOnto(WriteHeader(WriteHeader(w, GetStatusCode(t)),
                                StatusInternalServerError),
                    SetData(EmptyTO, defaultResponseBody))

\* sendHTTPResponse: the status line, then the body; the encoder writes
\* nothing when it cannot encode the transfer object
sendHTTPResponse(w, t) ==
    IF Encodable(t) THEN EncodeOnto(WriteHeader(w, GetStatusCode(t)), t)
    ELSE WriteHeader(w, GetStatusCode(t))

\* the error sendHTTPResponse returns
sendHTTPResponseError(t) == IF Encodable(t) THEN "nil" ELSE "error"

\* --------------------------------------------------- response generation
setUniversalAttributes_alwaysDefault(t, writer, meta, statusCode) ==
    SetStatusCode(SetMeta(SetWriter(t, writer), meta), defaultStatusCode)

\* setUniversalAttributes, on the transfer object
setUniversalAttributes(t, writer, meta, statusCode) ==
    SetStatusCode(SetMeta(SetWriter(t, writer), meta),
                  IF statusCode # 0 THEN statusCode ELSE defaultStatusCode)

generateDefaultResponse_noData(t) == t

generateDefaultResponse(t) == SetData(t, defaultResponseBody)

generateDataResponse(t, data) == SetData(t, data)

generateTokenResponse(t, accessToken, refreshToken) ==
    SetTokenTwo(SetTokenOne(t, accessToken), refreshToken)

generateErrorResponse_keepStatus(t, toe, manifest, err) ==
    SetErrors(t, <<convertErrorItemToTransferObjectError(toe,
                        getErrorManifestItem(manifest, err))>>)

\* generateErrorResponse: the manifest item (or the fallback) overwrites the
\* status code and becomes the only error of the response
generateErrorResponse(t, toe, manifest, err) ==
    LET manifestItem == getErrorManifestItem(manifest, err)
    IN  SetErrors(SetStatusCode(t, manifestItem.StatusCode),
                  <<convertErrorItemToTransferObjectError(toe, manifestItem)>>)

is5xx_only500(status) == status = 500

is5xx(status) == status >= 500 /\ status <= 599

\* resolve the errors in order; the first 5xx item ends the resolution and
\* is the only error reported
RECURSIVE resolveErrors(_, _, _, _, _)
resolveErrors(toe, manifest, errs, i, acc) ==
    IF i > Len(errs) THEN acc
    ELSE LET item == getErrorManifestItem(manifest, errs[i])
         IN  IF is5xx(item.StatusCode)
             THEN <<convertErrorItemToTransferObjectError(toe, item)>>
             ELSE resolveErrors(toe, manifest, errs, i + 1,
                     Append(acc, convertErrorItemToTransferObjectError(toe, item)))

\* strconv.Atoi on a status string: -1 stands for a parse error
DigitVal(c) ==
    CASE c = "0" -> 0 [] c = "1" -> 1 [] c = "2" -> 2 [] c = "3" -> 3
      [] c = "4" -> 4 [] c = "5" -> 5 [] c = "6" -> 6 [] c = "7" -> 7
      [] c = "8" -> 8 [] c = "9" -> 9 [] OTHER -> -1

RECURSIVE AtoiFrom(_, _, _)
AtoiFrom(s, i, acc) ==
    IF i > Len(s) THEN acc
    ELSE IF DigitVal(s[i]) < 0 THEN -1
    ELSE AtoiFrom(s, i + 1, acc * 10 + DigitVal(s[i]))

Atoi(s) == IF Len(s) = 0 THEN -1 ELSE AtoiFrom(s, 1, 0)

getAppropiateStatusCodeOrDefault_firstOnly(es, i) ==
    IF Atoi(es[1].Status) >= 0 THEN Atoi(es[1].Status)
    ELSE defaultErrorsStatusCode

\* the status of the first error whose status string parses, else 400
RECURSIVE getAppropiateStatusCodeOrDefault(_, _)
getAppropiateStatusCodeOrDefault(es, i) ==
    IF i > Len(es) THEN defaultErrorsStatusCode
    ELSE IF Atoi(es[i].Status) >= 0 THEN Atoi(es[i].Status)
    ELSE getAppropiateStatusCodeOrDefault(es, i + 1)

generateMultiErrorResponse(t, toe, manifest, errs) ==
    LET es == resolveErrors(toe, manifest, errs, 1, <<>>)
    IN  SetErrors(SetStatusCode(t, getAppropiateStatusCodeOrDefault(es, 1)), es)

\* ------------------------------------------------------------ the request
\* NewResponseRequest
Request(w, errs, err, data, meta, headers, statusCode, access, refresh) ==
    [Writer |-> w, Errors |-> errs, Error |-> err, Data |-> data,
     Meta |-> meta, Headers |-> headers, StatusCode |-> statusCode,
     TokenOne |-> access, TokenTwo |-> refresh]

NoRequest == Request(NilWriter, <<>>, NoError, NoData, {}, {}, 0, "", "")

ResponseKind_errorAlways(req) ==
    IF Len(req.Errors) > 0 THEN "multi" ELSE "error"

ResponseKind_tokenFirst(req) ==
    IF Len(req.Errors) > 0 THEN "multi"
    ELSE IF req.TokenOne # "" \/ req.TokenTwo # "" THEN "token"
    ELSE IF req.Error # NoError THEN "error"
    ELSE IF req.Data # NoData THEN "data"
    ELSE "default"

\* the branch NewHTTPResponse takes
ResponseKind(req) ==
    IF Len(req.Errors) > 0 THEN "multi"
    ELSE IF req.Error # NoError THEN "error"
    ELSE IF req.TokenOne # "" \/ req.TokenTwo # "" THEN "token"
    ELSE IF req.Data # NoData THEN "data"
    ELSE "default"

\* the transfer object after the branch's generate function
generateResponse(t, toe, manifest, req) ==
    LET kind == ResponseKind(req)
    IN  CASE kind = "multi"  -> generateMultiErrorResponse(t, toe, manifest, req.Errors)
          [] kind = "error"  -> generateErrorResponse(t, toe, manifest, req.Error)
          [] kind = "token"  -> generateTokenResponse(t, req.TokenOne, req.TokenTwo)
          [] kind = "data"   -> generateDataResponse(t, req.Data)
          [] OTHER           -> generateDefaultResponse(t)

\* ------------------------------------------------------ response aides
\* ResponseAttributes: WithHeaders(headers) and WithMeta(meta)
WithHeaders(headers) == [kind |-> "WithHeaders", value |-> headers]
WithMeta(meta)       == [kind |-> "WithMeta", value |-> meta]

ApplyAttribute_merge(req, attribute) ==
    IF attribute.kind = "WithHeaders"
    THEN [req EXCEPT !.Headers = @ \cup attribute.value]
    ELSE [req EXCEPT !.Meta = attribute.value]

\* attribute(&request)
ApplyAttribute(req, attribute) ==
    IF attribute.kind = "WithHeaders"
    THEN [req EXCEPT !.Headers = attribute.value]
    ELSE [req EXCEPT !.Meta = attribute.value]

ApplyAttributes_none(req, attributes, i) == req

\* for _, attribute := range attributes { attribute(&request) }
RECURSIVE ApplyAttributes(_, _, _)
ApplyAttributes(req, attributes, i) ==
    IF i > Len(attributes) THEN req
    ELSE ApplyAttributes(ApplyAttribute(req, attributes[i]), attributes, i + 1)

isEmpty_never(s) == FALSE

isEmpty(s) == s = ""

WriterMissing_never(req) == FALSE

\* response.Writer == nil
WriterMissing(req) == req.Writer = NilWriter

\* ------------------------------------------------------------ the inputs
MetaExample    == {<<"example", "meta in response">>}
HeadersExample == {<<"correlation-id", "some-id">>}
HeadersPlain   == {<<"Content-Type", "text/plain">>}

ErrLists   == UNION {[1..n -> ErrKeys] : n \in 0..MaxErrs}
SingleErrs == {NoError, "e404", "eMiss"}
DataValues == {NoData, "user"}
StatusCodes == {0, 201}
TokenOnes  == {"", "test-token-1"}
TokenTwos  == {"", "test-token-2"}

\* the fields that decide the branch: without an error list every value of
\* the others; with one, the others absent, present, or only some of them
BranchRequests(w) ==
    {Request(w, <<>>, err, data, {}, {}, sc, a, r) :
        err \in SingleErrs, data \in DataValues, sc \in StatusCodes,
        a \in TokenOnes, r \in TokenTwos}
    \cup
    {Request(w, errs, o[1], o[2], {}, {}, sc, o[3], o[4]) :
        errs \in ErrLists \ {<<>>}, sc \in StatusCodes,
        o \in {<<NoError, NoData, "", "">>,
               <<"e404", NoData, "", "">>,
               <<NoError, "user", "test-token-1", "test-token-2">>,
               <<"e404", "user", "test-token-1", "test-token-2">>}}

\* one request of each branch
KindRequests(w) ==
    { Request(w, <<"e400", "e404">>, NoError, NoData, {}, {}, 0, "", ""),
      Request(w, <<>>, "e404", NoData, {}, {}, 0, "", ""),
      Request(w, <<>>, NoError, NoData, {}, {}, 0, "test-token-1", ""),
      Request(w, <<>>, NoError, "user", {}, {}, 0, "", ""),
      Request(w, <<>>, NoError, NoData, {}, {}, 0, "", "") }

\* the requests with headers
HeaderRequests(w) ==
    {[req EXCEPT !.Headers = h, !.Meta = meta, !.StatusCode = sc] :
        req \in KindRequests(w), h \in {HeadersExample, HeadersPlain},
        meta \in {{}, MetaExample}, sc \in StatusCodes}

\* the requests whose data cannot be encoded
UnencodableRequests(w) ==
    {Request(w, <<>>, NoError, Unencodable, {}, {}, sc, a, "") :
        sc \in StatusCodes, a \in TokenOnes}

\* the requests of process p: its own writer, or none
Requests(p) ==
    BranchRequests(p) \cup HeaderRequests(p) \cup UnencodableRequests(p)
        \cup KindRequests(NilWriter) \cup HeaderRequests(NilWriter)

\* a recorder on which the handler has set a content type before the call
HtmlRecorder == HeaderSet(NewRecorder, "Content-Type", "text/html")

\* the recorders a handler passes with a request: a new one or, with some
\* requests, one that has a content type already
Recorders(request) ==
    IF request \in KindRequests(request.Writer) \cup HeaderRequests(request.Writer)
       /\ request.Writer # NilWriter
    THEN {NewRecorder, HtmlRecorder}
    ELSE {NewRecorder}

AttributeLists ==
    {<<>>, <<WithMeta(MetaExample)>>, <<WithHeaders(HeadersExample)>>,
     <<WithMeta(MetaExample), WithHeaders(HeadersExample)>>}

\* the writers passed to the error, data and blank aides: a nil writer is
\* passed without attributes
AideWriters(attributes) == IF attributes = <<>> THEN {NilWriter, 1} ELSE {1}

\* attribute lists with WithHeaders twice
RepeatedLists ==
    {<<WithHeaders(HeadersExample), WithHeaders(HeadersPlain)>>,
     <<WithHeaders(HeadersPlain), WithHeaders(HeadersExample)>>}

\* the requests of the concurrent callers
ConcRequests(p) ==
    { Request(p, <<>>, "e404", NoData, {}, {}, 0, "", ""),
      Request(p, <<>>, NoError, NoData, {}, {}, 201, "test-token-1", "test-token-2"),
      Request(p, <<>>, NoError, "user", MetaExample, HeadersExample, 0, "", ""),
      Request(p, <<>>, NoError, NoData, {}, {}, 0, "", "") }

\* -------------------------------------------------------------- the state
VARIABLES
    rpc,             \* NewReplier: "none", "built" (about to return), "ready"
    manifests,       \* the argument of NewReplier, until it returns
    errorManifest,   \* Replier.errorManifest
    transferObjectError, \* Replier.transferObjectError
    transferObject,  \* Replier.transferObject: the object it points to
    heap,            \* the transfer objects
    writers,         \* the response writer of every caller
    pc,              \* where every caller is in its call
    fn,              \* the method it called
    req,             \* the NewResponseRequest of the call
    attrs,           \* the attributes passed to an aide
    args,            \* history: the request made of the positional arguments
    ret,             \* what the call returned: "none", "nil", "error", "panic"
    sendW,           \* sendHTTPResponse's writer argument
    sendTO,          \* sendHTTPResponse's transferObject argument
    earlier,         \* history: the branch of the last response written
                     \* before the calls now under way ("none": no response yet)
    given            \* history: the writer of every caller as the call got it

vars == <<rpc, manifests, errorManifest, transferObjectError, transferObject,
          heap, writers,
          pc, fn, req, attrs, args, ret, sendW, sendTO, earlier, given>>

\* object 0 is the one NewReplier makes, object p the one the call of p makes
ObjIds == 0..NumProcs

Init ==
    /\ rpc = "none"
    /\ manifests = <<>>
    /\ errorManifest = EmptyManifest
    /\ transferObjectError = EmptyTOE
    /\ transferObject = 0
    /\ heap = [o \in ObjIds |-> EmptyTO]
    /\ writers = [p \in Procs |-> NewRecorder]
    /\ pc = [p \in Procs |-> "idle"]
    /\ fn = [p \in Procs |-> "none"]
    /\ req = [p \in Procs |-> NoRequest]
    /\ attrs = [p \in Procs |-> <<>>]
    /\ args = [p \in Procs |-> NoRequest]
    /\ ret = [p \in Procs |-> "none"]
    /\ sendW = [p \in Procs |-> NilWriter]
    /\ sendTO = [p \in Procs |-> 0]
    /\ earlier = "none"
    /\ given = [p \in Procs |-> NewRecorder]

callVars == <<pc, fn, req, attrs, args, ret, sendW, sendTO>>

\* NewReplier(manifests, options...): the merged manifest, a default
\* transfer object and the transfer object error (the default one, or the
\* one of the option WithTransferObjectError)
NewReplier(ms, toe) ==
    /\ rpc = "none"
    /\ rpc' = "built"
    /\ manifests' = ms
    /\ errorManifest' = mergeManifestCollections(ms)
    /\ transferObjectError' = toe
    /\ transferObject' = 0
    /\ heap' = [heap EXCEPT ![0] = EmptyTO]
    /\ UNCHANGED <<writers, callVars, earlier, given>>

\* NewReplier returns the Replier
NewReplierReturn ==
    /\ rpc = "built"
    /\ rpc' = "ready"
    /\ manifests' = <<>>
    /\ UNCHANGED <<errorManifest, transferObjectError, transferObject, heap, writers, callVars,
                   earlier, given>>

\* NewHTTPResponse up to setUniversalAttributes: the writer check and the
\* fresh transfer object
Enter(p, request) ==
    IF WriterMissing(request)
    THEN /\ ret' = [ret EXCEPT ![p] = "error"]
         /\ pc' = [pc EXCEPT ![p] = "done"]
         /\ UNCHANGED <<transferObject, heap>>
    ELSE /\ heap' = [heap EXCEPT ![p] = RefreshTransferObject(heap[transferObject])]
         /\ transferObject' = p
         /\ pc' = [pc EXCEPT ![p] = "universal"]
         /\ ret' = [ret EXCEPT ![p] = "none"]

\* a handler with its recorder calls replier.NewHTTPResponse(&request)
NewHTTPResponse(p, request, recorder) ==
    /\ rpc = "ready"
    /\ pc[p] = "idle"
    /\ fn' = [fn EXCEPT ![p] = "NewHTTPResponse"]
    /\ req' = [req EXCEPT ![p] = request]
    /\ attrs' = [attrs EXCEPT ![p] = <<>>]
    /\ args' = [args EXCEPT ![p] = request]
    /\ writers' = [writers EXCEPT ![p] = recorder]
    /\ given' = [given EXCEPT ![p] = recorder]
    /\ Enter(p, request)
    /\ UNCHANGED <<rpc, manifests, errorManifest, transferObjectError, sendW, sendTO, earlier>>

\* a handler with a new recorder calls
\* replier.NewHTTPTokenResponse(w, statusCode, accessToken, refreshToken, attributes...)
NewHTTPTokenResponse(p, w, statusCode, accessToken, refreshToken, attributes) ==
    LET positional == Request(w, <<>>, NoError, NoData, {}, {}, statusCode,
                              accessToken, refreshToken)
        request == ApplyAttributes(positional, attributes, 1)
    IN  /\ rpc = "ready"
        /\ pc[p] = "idle"
        /\ fn' = [fn EXCEPT ![p] = "NewHTTPTokenResponse"]
        /\ attrs' = [attrs EXCEPT ![p] = attributes]
        /\ args' = [args EXCEPT ![p] = positional]
        /\ writers' = [writers EXCEPT ![p] = NewRecorder]
        /\ given' = [given EXCEPT ![p] = NewRecorder]
        /\ IF isEmpty(accessToken) /\ isEmpty(refreshToken)
           THEN /\ req' = [req EXCEPT ![p] = positional]
                /\ ret' = [ret EXCEPT ![p] = "error"]
                /\ pc' = [pc EXCEPT ![p] = "done"]
                /\ UNCHANGED <<transferObject, heap>>
           ELSE /\ req' = [req EXCEPT ![p] = request]
                /\ Enter(p, request)
        /\ UNCHANGED <<rpc, manifests, errorManifest, transferObjectError, sendW, sendTO, earlier>>

\* a handler with a new recorder calls
\* replier.NewHTTPErrorResponse(w, err, attributes...): the request of the
\* positional arguments, the attributes applied to it in order, then
\* NewHTTPResponse
NewHTTPErrorResponse(p, w, err, attributes) ==
    LET positional == Request(w, <<>>, err, NoData, {}, {}, 0, "", "")
        request == ApplyAttributes(positional, attributes, 1)
    IN  /\ rpc = "ready"
        /\ pc[p] = "idle"
        /\ fn' = [fn EXCEPT ![p] = "NewHTTPErrorResponse"]
        /\ attrs' = [attrs EXCEPT ![p] = attributes]
        /\ args' = [args EXCEPT ![p] = positional]
        /\ writers' = [writers EXCEPT ![p] = NewRecorder]
        /\ given' = [given EXCEPT ![p] = NewRecorder]
        /\ req' = [req EXCEPT ![p] = request]
        /\ Enter(p, request)
        /\ UNCHANGED <<rpc, manifests, errorManifest, transferObjectError, sendW, sendTO, earlier>>

\* replier.NewHTTPDataResponse(w, statusCode, data, attributes...)
NewHTTPDataResponse(p, w, statusCode, data, attributes) ==
    LET positional == Request(w, <<>>, NoError, data, {}, {}, statusCode, "", "")
        request == ApplyAttributes(positional, attributes, 1)
    IN  /\ rpc = "ready"
        /\ pc[p] = "idle"
        /\ fn' = [fn EXCEPT ![p] = "NewHTTPDataResponse"]
        /\ attrs' = [attrs EXCEPT ![p] = attributes]
        /\ args' = [args EXCEPT ![p] = positional]
        /\ writers' = [writers EXCEPT ![p] = NewRecorder]
        /\ given' = [given EXCEPT ![p] = NewRecorder]
        /\ req' = [req EXCEPT ![p] = request]
        /\ Enter(p, request)
        /\ UNCHANGED <<rpc, manifests, errorManifest, transferObjectError, sendW, sendTO, earlier>>

\* replier.NewHTTPBlankResponse(w, statusCode, attributes...)
NewHTTPBlankResponse(p, w, statusCode, attributes) ==
    LET positional == Request(w, <<>>, NoError, NoData, {}, {}, statusCode, "", "")
        request == ApplyAttributes(positional, attributes, 1)
    IN  /\ rpc = "ready"
        /\ pc[p] = "idle"
        /\ fn' = [fn EXCEPT ![p] = "NewHTTPBlankResponse"]
        /\ attrs' = [attrs EXCEPT ![p] = attributes]
        /\ args' = [args EXCEPT ![p] = positional]
        /\ writers' = [writers EXCEPT ![p] = NewRecorder]
        /\ given' = [given EXCEPT ![p] = NewRecorder]
        /\ req' = [req EXCEPT ![p] = request]
        /\ Enter(p, request)
        /\ UNCHANGED <<rpc, manifests, errorManifest, transferObjectError, sendW, sendTO, earlier>>

\* setUniversalAttributes, on whatever r.transferObject points to now
Universal(p) ==
    /\ pc[p] = "universal"
    /\ LET t == transferObject
           w == GetWriter(SetWriter(heap[t], req[p].Writer))
       IN  IF w = NilWriter
           THEN \* GetWriter().Header() on a nil writer
                /\ heap' = [heap EXCEPT ![t] = SetWriter(@, req[p].Writer)]
                /\ ret' = [ret EXCEPT ![p] = "panic"]
                /\ pc' = [pc EXCEPT ![p] = "done"]
                /\ UNCHANGED writers
           ELSE /\ heap' = [heap EXCEPT ![t] =
                        setUniversalAttributes(@, req[p].Writer, req[p].Meta,
                                               req[p].StatusCode)]
                /\ writers' = [writers EXCEPT ![w] = setHeaders(@, req[p].Headers)]
                /\ pc' = [pc EXCEPT ![p] = "generate"]
                /\ UNCHANGED ret
    /\ UNCHANGED <<rpc, manifests, errorManifest, transferObjectError, transferObject, fn, req,
                   attrs, args, sendW, sendTO, earlier, given>>

\* the branch's generate function up to its call of sendHTTPResponse
Generate(p) ==
    /\ pc[p] = "generate"
    /\ LET t == transferObject
           obj == generateResponse(heap[t], transferObjectError, errorManifest,
                                   req[p])
       IN  /\ heap' = [heap EXCEPT ![t] = obj]
           /\ sendW' = [sendW EXCEPT ![p] = GetWriter(obj)]
           /\ sendTO' = [sendTO EXCEPT ![p] = t]
    /\ pc' = [pc EXCEPT ![p] = "send"]
    /\ UNCHANGED <<rpc, manifests, errorManifest, transferObjectError, transferObject, writers,
                   fn, req, attrs, args, ret, earlier, given>>

\* sendHTTPResponse(writer, transferObject)
Send(p) ==
    /\ pc[p] = "send"
    /\ LET w == sendW[p]
           t == heap[sendTO[p]]
       IN  IF w = NilWriter \/ ~ValidStatusCode(GetStatusCode(t))
           THEN /\ ret' = [ret EXCEPT ![p] = "panic"]
                /\ UNCHANGED writers
           ELSE /\ writers' = [writers EXCEPT ![w] = sendHTTPResponse(@, t)]
                /\ ret' = [ret EXCEPT ![p] = sendHTTPResponseError(t)]
    /\ pc' = [pc EXCEPT ![p] = "done"]
    /\ UNCHANGED <<rpc, manifests, errorManifest, transferObjectError, transferObject, heap,
                   fn, req, attrs, args, sendW, sendTO, earlier, given>>

\* the call is over: the handler returns, its request and its recorder go
\* away (the transfer object keeps the reference it was given)
Return(p) ==
    /\ pc[p] = "done"
    /\ pc' = [pc EXCEPT ![p] = "idle"]
    /\ fn' = [fn EXCEPT ![p] = "none"]
    /\ req' = [req EXCEPT ![p] = NoRequest]
    /\ attrs' = [attrs EXCEPT ![p] = <<>>]
    /\ args' = [args EXCEPT ![p] = NoRequest]
    /\ ret' = [ret EXCEPT ![p] = "none"]
    /\ sendW' = [sendW EXCEPT ![p] = NilWriter]
    /\ sendTO' = [sendTO EXCEPT ![p] = 0]
    /\ writers' = [writers EXCEPT ![p] = NewRecorder]
    /\ given' = [given EXCEPT ![p] = NewRecorder]
    /\ earlier' = IF ret[p] = "nil" THEN ResponseKind(req[p]) ELSE earlier
    /\ UNCHANGED <<rpc, manifests, errorManifest, transferObjectError, transferObject, heap>>

\* one handler at a time: every call returns before the next one starts
Next ==
    \/ \E ms \in ManifestLists, toe \in TransferObjectErrors : NewReplier(ms, toe)
    \/ NewReplierReturn
    \/ \E request \in Requests(1) : \E recorder \in Recorders(request) :
            NewHTTPResponse(1, request, recorder)
    \/ \E w \in {NilWriter, 1}, sc \in StatusCodes, a \in TokenOnes,
          r \in TokenTwos, as \in AttributeLists :
            NewHTTPTokenResponse(1, w, sc, a, r, as)
    \/ \E as \in AttributeLists : \E w \in AideWriters(as), err \in SingleErrs :
            NewHTTPErrorResponse(1, w, err, as)
    \/ \E as \in AttributeLists : \E w \in AideWriters(as), sc \in StatusCodes,
          data \in DataValues \cup {Unencodable} :
            NewHTTPDataResponse(1, w, sc, data, as)
    \/ \E sc \in StatusCodes, as \in RepeatedLists :
            NewHTTPDataResponse(1, 1, sc, "user", as)
    \/ \E as \in AttributeLists : \E w \in AideWriters(as), sc \in StatusCodes :
            NewHTTPBlankResponse(1, w, sc, as)
    \/ Universal(1)
    \/ Generate(1)
    \/ Send(1)
    \/ Return(1)

Spec == Init /\ [][Next]_vars

\* handlers run concurrently on one Replier, one call each
ConcManifests == <<PSeveral, PNotFound>>

NextConc ==
    \/ NewReplier(ConcManifests, EmptyTOE)
    \/ NewReplierReturn
    \/ \E p \in Procs : \E request \in ConcRequests(p) :
            NewHTTPResponse(p, request, NewRecorder)
    \/ \E p \in Procs : Universal(p)
    \/ \E p \in Procs : Generate(p)
    \/ \E p \in Procs : Send(p)

SpecConc == Init /\ [][NextConc]_vars

\* a manifest with an entry whose StatusCode is not set
ItemUnset == Item("Validation Error", "The name is too long", 0, "", "1011")

PUnset == [k \in {"eUnset"} |-> ItemUnset]

UnsetManifests == <<PNotFound, PUnset>>

UnsetRequests(w) ==
    {Request(w, errs, err, NoData, {}, {}, sc, "", "") :
        errs \in {<<>>, <<"eUnset">>, <<"eUnset", "e404">>},
        err \in {NoError, "eUnset", "e404"}, sc \in StatusCodes}

NextUnset ==
    \/ NewReplier(UnsetManifests, EmptyTOE)
    \/ NewReplierReturn
    \/ \E request \in UnsetRequests(1) : NewHTTPResponse(1, request, NewRecorder)
    \/ Universal(1)
    \/ Generate(1)
    \/ Send(1)
    \/ Return(1)

SpecUnset == Init /\ [][NextUnset]_vars

\* errors.Join(errs...).Error(): the texts of the errors, one per line
RECURSIVE JoinFrom(_, _)
JoinFrom(errs, i) ==
    IF i = Len(errs) THEN errs[i]
    ELSE errs[i] \o "\n" \o JoinFrom(errs, i + 1)

Join(errs) == JoinFrom(errs, 1)

\* the lists of manifest errors a handler wraps in one error
WrappedLists == {<<"e400", "e400">>, <<"e400", "e404">>, <<"e404", "e400">>}

JoinManifests == {<<PSeveral, PNotFound>>, <<PSeveral>>}

\* handlers that pass wrapped errors to the error aide
NextJoin ==
    \/ \E ms \in JoinManifests : NewReplier(ms, EmptyTOE)
    \/ NewReplierReturn
    \/ \E err \in {Join(es) : es \in WrappedLists} \cup {"e400"},
          as \in AttributeLists :
            NewHTTPErrorResponse(1, 1, err, as)
    \/ Universal(1)
    \/ Generate(1)
    \/ Send(1)
    \/ Return(1)

SpecJoin == Init /\ [][NextJoin]_vars

\* ================================================================ claims
\* the call of p is over and went through NewHTTPResponse with a writer
Called(p) ==
    /\ pc[p] = "done"
    /\ req[p].Writer # NilWriter
    /\ ~(fn[p] = "NewHTTPTokenResponse" /\ req[p].TokenOne = "" /\ req[p].TokenTwo = "")

\* what the branch `kind` alone writes for the request onto the recorder
BranchOn(recorder, toe, manifest, request, kind) ==
    LET base == setUniversalAttributes(EmptyTO, request.Writer, request.Meta,
                                       request.StatusCode)
        obj  == CASE kind = "multi" -> generateMultiErrorResponse(base, toe, manifest, request.Errors)
                  [] kind = "error" -> generateErrorResponse(base, toe, manifest, request.Error)
                  [] kind = "token" -> generateTokenResponse(base, request.TokenOne, request.TokenTwo)
                  [] kind = "data"  -> generateDataResponse(base, request.Data)
                  [] OTHER          -> generateDefaultResponse(base)
    IN  sendHTTPResponse(setHeaders(recorder, request.Headers), obj)

\* what the branch `kind` alone writes for the request onto a new recorder
BranchAlone(manifest, request, kind) ==
    BranchOn(NewRecorder, transferObjectError, manifest, request, kind)

\* the fields of the request that are populated
Populated(request) ==
    (IF Len(request.Errors) > 0 THEN {"multi"} ELSE {})
    \cup (IF request.Error # NoError THEN {"error"} ELSE {})
    \cup (IF request.TokenOne # "" \/ request.TokenTwo # "" THEN {"token"} ELSE {})
    \cup (IF request.Data # NoData THEN {"data"} ELSE {})

\* multi-error > error > token > data > default
Highest(request) ==
    LET pop == Populated(request)
    IN  IF "multi" \in pop THEN "multi"
        ELSE IF "error" \in pop THEN "error"
        ELSE IF "token" \in pop THEN "token"
        ELSE IF "data" \in pop THEN "data"
        ELSE "default"

\* the item the claims expect for an error: its manifest entry, else the
\* 500 "Internal Server Error" entry
InternalServerError ==
    [Title |-> "Internal Server Error", Detail |-> "", StatusCode |-> 500,
     About |-> "", Code |-> "", Meta |-> NoData]

Resolved(err) ==
    IF err \in DOMAIN errorManifest THEN errorManifest[err] ELSE InternalServerError

\* the error object of an item as it appears in the body
Rendered(item) ==
    EncodeError(convertErrorItemToTransferObjectError(transferObjectError, item))

\* the body of the one response on the writer of p
BodyOf(p) == writers[p].Body[1]

Wrote(p) == ret[p] = "nil" /\ Len(writers[p].Body) = 1

\* C1: when two or more of {errors, error, token, data} are populated, the
\* status and the body are those of the highest-precedence populated branch
\* alone (multi-error > error > token > data), whatever else is populated.
C1_Precedence ==
    \A p \in Procs :
        (Called(p) /\ Cardinality(Populated(req[p])) >= 2) =>
            LET alone == BranchAlone(errorManifest, req[p], Highest(req[p]))
            IN  /\ ret[p] = "nil"
                /\ writers[p].Code = alone.Code
                /\ writers[p].Body = alone.Body

C1_Witness ==
    /\ Called(1)
    /\ Populated(req[1]) = {"multi", "error", "token", "data"}
    /\ req[1].StatusCode = 201
    /\ req[1].Errors = <<"e400", "e404">>
    /\ "e400" \in DOMAIN errorManifest
    /\ Wrote(1)
    /\ BodyOf(1).keys = {"errors"}
    /\ Len(BodyOf(1).errors) = 2
    /\ writers[1].Code = 400

\* the positions of a multi-error list whose error resolves to a 5xx item
FivePositions(errs) ==
    {i \in 1..Len(errs) : Resolved(errs[i]).StatusCode >= 500
                          /\ Resolved(errs[i]).StatusCode <= 599}

MultiCalled(p) == Called(p) /\ Len(req[p].Errors) > 0

C3_Fallback ==
    \A p \in Procs :
        (/\ Called(p)
         /\ Len(req[p].Errors) = 0
         /\ req[p].Error # NoError
         /\ req[p].Error \notin DOMAIN errorManifest) =>
            /\ Wrote(p)
            /\ writers[p].Code = 500
            /\ "errors" \in BodyOf(p).keys
            /\ Len(BodyOf(p).errors) = 1
            /\ BodyOf(p).errors[1].keys = {"title", "status"}
            /\ BodyOf(p).errors[1].title = "Internal Server Error"
            /\ BodyOf(p).errors[1].status = <<"5", "0", "0">>

C3_Witness ==
    /\ Called(1)
    /\ Len(req[1].Errors) = 0
    /\ req[1].Error = "eMiss"
    /\ DOMAIN errorManifest # {}
    /\ writers[1].Code = 500
    /\ Wrote(1)
    /\ BodyOf(1).errors[1].title = "Internal Server Error"

C5_ErrorStatus ==
    \A p \in Procs :
        (Called(p) /\ Len(req[p].Errors) = 0 /\ req[p].Error # NoError) =>
            /\ Wrote(p)
            /\ writers[p].Code = Resolved(req[p].Error).StatusCode

C5_Witness ==
    /\ Called(1)
    /\ Len(req[1].Errors) = 0
    /\ req[1].Error = "e404"
    /\ req[1].StatusCode = 201
    /\ "e404" \in DOMAIN errorManifest
    /\ errorManifest["e404"].StatusCode = 404
    /\ Wrote(1)
    /\ writers[1].Code = 404

\* what a call alone on the Replier writes for the request
ResponseOf(manifest, request) == BranchAlone(manifest, request, Highest(request))

\* C6: with calls running concurrently on one Replier, every writer gets
\* exactly the status code and the body its own request determines.
C6_OwnResponse ==
    \A p \in Procs :
        pc[p] = "done" =>
            /\ ret[p] = "nil"
            /\ writers[p].Code = ResponseOf(errorManifest, req[p]).Code
            /\ writers[p].Body = ResponseOf(errorManifest, req[p]).Body

\* C7: every call of a sequence of calls starts from an empty envelope, and
\* its response is the one the manifest and its own request determine:
\* nothing an earlier call set appears in it.
C7_FreshEnvelope ==
    \A p \in Procs :
        /\ pc[p] = "universal" => heap[transferObject] = EmptyTO
        /\ Called(p) =>
              /\ ret[p] # "panic"
              /\ writers[p] = BranchOn(given[p], transferObjectError,
                                        errorManifest, req[p],
                                        Highest(req[p]))

C7_Witness ==
    /\ Called(1)
    /\ earlier = "token"
    /\ Populated(req[1]) = {"data"}
    /\ req[1].StatusCode = 0
    /\ req[1].Meta = {}
    /\ Wrote(1)
    /\ BodyOf(1).keys = {"data"}
    /\ writers[1].Code = 200

\* C8: with a nil writer the call returns an error, does not panic, and
\* writes no header, status or body.
C8_NilWriter ==
    \A p \in Procs :
        (pc[p] = "done" /\ req[p].Writer = NilWriter) =>
            /\ ret[p] = "error"
            /\ \A w \in Procs : writers[w] = NewRecorder

C8_Witness ==
    /\ pc[1] = "done"
    /\ fn[1] = "NewHTTPResponse"
    /\ req[1].Writer = NilWriter
    /\ req[1].Data # NoData
    /\ earlier # "none"
    /\ ret[1] = "error"

\* C9: NewHTTPTokenResponse with both tokens empty returns an error and
\* writes nothing, for every status code and attribute list.
C9_NoToken ==
    \A p \in Procs :
        (/\ pc[p] = "done"
         /\ fn[p] = "NewHTTPTokenResponse"
         /\ req[p].TokenOne = "" /\ req[p].TokenTwo = "") =>
            /\ ret[p] = "error"
            /\ writers[p] = NewRecorder

C9_Witness ==
    /\ pc[1] = "done"
    /\ fn[1] = "NewHTTPTokenResponse"
    /\ req[1].Writer = 1
    /\ req[1].TokenOne = "" /\ req[1].TokenTwo = ""
    /\ req[1].StatusCode = 201
    /\ Len(attrs[1]) = 2
    /\ ret[1] = "error"
    /\ writers[1] = NewRecorder

\* the partials of NewReplier's argument that hold the key
Holders(k) == {i \in 1..Len(manifests) : k \in DOMAIN manifests[i]}

\* C10: when several partial manifests share a key, the merged entry of the
\* key is the entry of the partial listed last; NewReplier raises no error.
C10_LastWins ==
    rpc = "built" =>
        \A k \in ErrKeys :
            Cardinality(Holders(k)) >= 2 =>
                LET last == CHOOSE i \in Holders(k) : \A j \in Holders(k) : j <= i
                IN  /\ k \in DOMAIN errorManifest
                    /\ errorManifest[k] = manifests[last][k]

C10_Witness ==
    /\ rpc = "built"
    /\ manifests = <<PNotFound, PSeveral>>
    /\ errorManifest["e404"] = ItemGone
    /\ ItemGone # ItemNotFound

\* C11: the manifest NewReplier builds holds every key of every partial
\* manifest supplied, all the keys of a partial with several entries
\* included, each with an entry configured for it; an error with such a key
\* is answered with its configured entry, never with the 500 fallback.
C11_EveryKey ==
    /\ rpc = "built" =>
          \A i \in 1..Len(manifests) : \A k \in DOMAIN manifests[i] :
              /\ k \in DOMAIN errorManifest
              /\ \E j \in Holders(k) : errorManifest[k] = manifests[j][k]
    /\ \A p \in Procs :
          (/\ Called(p)
           /\ Len(req[p].Errors) = 0
           /\ req[p].Error \in DOMAIN errorManifest) =>
              /\ Wrote(p)
              /\ writers[p].Code = errorManifest[req[p].Error].StatusCode
              /\ BodyOf(p).errors = <<Rendered(errorManifest[req[p].Error])>>
              /\ BodyOf(p).errors[1].title # "Internal Server Error"

C11_Witness ==
    /\ DOMAIN errorManifest = {"e400", "e404", "e503"}
    /\ errorManifest["e400"] = ItemValidation
    /\ Called(1)
    /\ Len(req[1].Errors) = 0
    /\ req[1].Error = "e404"
    /\ Wrote(1)
    /\ writers[1].Code \in {404, 410}
    /\ BodyOf(1).errors[1].title \in {"Resource Not Found", "Resource Gone"}

\* C12: in the token, data and default branches the status written is the
\* request's StatusCode when it is not zero and 200 when it is zero; a
\* default response with an explicit status code carries that status code.
C12_RequestStatus ==
    \A p \in Procs :
        (Called(p) /\ Highest(req[p]) \in {"token", "data", "default"}) =>
            /\ "WriteHeader" \in {writers[p].Log[i] : i \in 1..Len(writers[p].Log)}
            /\ req[p].StatusCode # 0 => writers[p].Code = req[p].StatusCode
            /\ req[p].StatusCode = 0 => writers[p].Code = 200

C12_Witness ==
    /\ Called(1)
    /\ Populated(req[1]) = {}
    /\ req[1].StatusCode = 201
    /\ Wrote(1)
    /\ writers[1].Code = 201
    /\ earlier = "token"

\* C13: a request with a writer and no errors, no error, no token and nil
\* data is answered with the body {"data":"{}"}: the data member is the
\* two-character string "{}" (the data values of this model are Go strings),
\* no other member is there but the meta the request carries, and the
\* status is 200 when the request gives no status code.
C13_DefaultBody ==
    \A p \in Procs :
        (Called(p) /\ Populated(req[p]) = {}) =>
            /\ Wrote(p)
            /\ "data" \in BodyOf(p).keys
            /\ BodyOf(p).data = "{}"
            /\ BodyOf(p).keys \subseteq {"data", "meta"}
            /\ req[p].Meta = {} => BodyOf(p).keys = {"data"}
            /\ req[p].StatusCode = 0 => writers[p].Code = 200

C13_Witness ==
    /\ Called(1)
    /\ fn[1] = "NewHTTPResponse"
    /\ Populated(req[1]) = {}
    /\ req[1].Meta = {}
    /\ req[1].StatusCode = 0
    /\ Wrote(1)
    /\ BodyOf(1).keys = {"data"}
    /\ BodyOf(1).data = "{}"
    /\ writers[1].Code = 200

\* the content type the caller supplied: the one of the request's headers,
\* else the one already on the writer, else none ("")
CallerContentType(p) ==
    LET inRequest == {kv \in req[p].Headers :
                         CanonicalMIMEHeaderKey(kv[1]) = "Content-Type"}
    IN  IF inRequest # {} THEN (CHOOSE kv \in inRequest : TRUE)[2]
        ELSE HeaderGet(given[p], "Content-Type")

\* C14: after a call that writes a response, the writer's Content-Type is
\* the caller's value, verbatim, if the caller supplied one (in the request's
\* headers, or on the writer before the call), and application/json
\* otherwise.
C14_ContentType ==
    \A p \in Procs :
        (Called(p) /\ Len(writers[p].Body) > 0) =>
            HeaderGet(writers[p], "Content-Type") =
                IF CallerContentType(p) # "" THEN CallerContentType(p)
                ELSE "application/json"

C14_Witness ==
    /\ Called(1)
    /\ Wrote(1)
    /\ given[1] = HtmlRecorder
    /\ req[1].Headers = HeadersExample
    /\ HeaderGet(writers[1], "Content-Type") = "text/html"
    /\ HeaderGet(writers[1], "Correlation-Id") = "some-id"

\* C15: with the default envelope the body of a token response has a
\* token's key exactly when that token is not empty, and the body of any
\* response has the meta key exactly when the request's meta is not empty;
\* no key is there with an empty value.
C15_OmitEmpty ==
    \A p \in Procs :
        (Called(p) /\ Wrote(p)) =>
            LET body == BodyOf(p)
            IN  /\ Highest(req[p]) = "token" =>
                      /\ "access_token" \in body.keys <=> req[p].TokenOne # ""
                      /\ "refresh_token" \in body.keys <=> req[p].TokenTwo # ""
                      /\ body.keys \subseteq {"access_token", "refresh_token", "meta"}
                /\ "meta" \in body.keys <=> req[p].Meta # {}
                /\ "access_token" \in body.keys =>
                      body.access_token = req[p].TokenOne /\ body.access_token # ""
                /\ "refresh_token" \in body.keys =>
                      body.refresh_token = req[p].TokenTwo /\ body.refresh_token # ""
                /\ "meta" \in body.keys => body.meta = req[p].Meta
                /\ "data" \in body.keys => body.data # NoData
                /\ "errors" \in body.keys => Len(body.errors) > 0

C15_Witness ==
    /\ Called(1)
    /\ Wrote(1)
    /\ Highest(req[1]) = "token"
    /\ req[1].TokenOne = "" /\ req[1].TokenTwo = "test-token-2"
    /\ req[1].Meta = {}
    /\ req[1].Data # NoData
    /\ BodyOf(1).keys = {"refresh_token"}

\* how often the operation is in the log of the writer
RECURSIVE Count(_, _)
Count(log, op) ==
    IF log = <<>> THEN 0
    ELSE (IF log[1] = op THEN 1 ELSE 0) + Count(Tail(log), op)

\* what the call of p has done so far on its writer, after what the handler
\* did before the call
OwnLog(p) == SubSeq(writers[p].Log, Len(given[p].Log) + 1, Len(writers[p].Log))

\* C16: a call with a writer writes the status line exactly once and
\* encodes the body exactly once, both at the end of the call and on its own
\* writer only; nothing is written a second time.
C16_WriteOnce ==
    \A p \in Procs :
        /\ (pc[p] \in {"universal", "generate", "send"}) =>
              /\ Count(OwnLog(p), "WriteHeader") = 0
              /\ Count(OwnLog(p), "Write") = 0
        /\ Called(p) =>
              /\ Count(OwnLog(p), "WriteHeader") = 1
              /\ Count(OwnLog(p), "Write") = (IF ret[p] = "nil" THEN 1 ELSE 0)
              /\ Len(writers[p].Body) = Count(OwnLog(p), "Write")
              /\ \A q \in Procs \ {p} : writers[q] = given[q]

C16_Witness ==
    /\ Called(1)
    /\ ret[1] = "nil"
    /\ given[1] = HtmlRecorder
    /\ Len(req[1].Errors) = 2
    /\ OwnLog(1) = <<"Header.Set", "WriteHeader", "Write">>
    /\ writers[1].Code = 400

\* C17: when the envelope cannot be encoded the call returns an error and
\* writes nothing more: the one status line of the call is there, no second
\* one, and no body.
C17_EncodeFailure ==
    \A p \in Procs :
        (/\ Called(p)
         /\ Highest(req[p]) = "data"
         /\ req[p].Data = Unencodable) =>
            /\ ret[p] = "error"
            /\ Count(OwnLog(p), "WriteHeader") = 1
            /\ Count(OwnLog(p), "Write") = 0
            /\ writers[p].Body = <<>>
            /\ writers[p].Code = (IF req[p].StatusCode # 0 THEN req[p].StatusCode
                                  ELSE 200)

C17_Witness ==
    /\ Called(1)
    /\ req[1].Data = Unencodable
    /\ Populated(req[1]) = {"data"}
    /\ req[1].StatusCode = 201
    /\ ret[1] = "error"
    /\ writers[1].Code = 201
    /\ writers[1].Body = <<>>
    /\ writers[1].Log = <<"Header.Set", "WriteHeader">>

\* the resolved and rendered entries of a multi-error list, in list order
Entries(errs) == [i \in 1..Len(errs) |-> Rendered(Resolved(errs[i]))]

\* the positions of the entries whose status string is a number
Parsing(errs) == {i \in 1..Len(errs) : Atoi(Entries(errs)[i].status) >= 0}

\* the largest status code among the resolved errors of the list
MaxStatus(errs) ==
    CHOOSE m \in {Resolved(errs[i]).StatusCode : i \in 1..Len(errs)} :
        \A i \in 1..Len(errs) : Resolved(errs[i]).StatusCode <= m

\* the status of the entry that decides the status of a multi-error
\* response: the first 5xx entry, else the first entry whose status string
\* parses, else 400
DecidingStatus(errs) ==
    LET five == FivePositions(errs)
        nums == Parsing(errs)
    IN  IF five # {}
        THEN Resolved(errs[CHOOSE i \in five : \A j \in five : i <= j]).StatusCode
        ELSE IF nums # {}
        THEN Atoi(Entries(errs)[CHOOSE i \in nums : \A j \in nums : i <= j].status)
        ELSE 400

StatusWritten(p) == Called(p) /\ Count(OwnLog(p), "WriteHeader") > 0

\* C18, as stated: the status code written is one of: the request's
\* explicit status code, the single resolved error's status code, the
\* largest resolved status code among the errors of a multi-error list,
\* 500, or 200.
C18_AsStated ==
    \A p \in Procs :
        StatusWritten(p) =>
            writers[p].Code \in
                {req[p].StatusCode, 500, 200}
                \cup (IF req[p].Error # NoError
                      THEN {Resolved(req[p].Error).StatusCode} ELSE {})
                \cup (IF Len(req[p].Errors) > 0
                      THEN {MaxStatus(req[p].Errors)} ELSE {})

\* C18, amended: the status code written is one of: the request's explicit
\* status code, the single resolved error's status code, the status of the
\* entry that decides a multi-error response (its first 5xx entry, else its
\* first entry whose status parses, else the default 400), 500, or 200.
C18_StatusSet ==
    \A p \in Procs :
        StatusWritten(p) =>
            writers[p].Code \in
                {req[p].StatusCode, 500, 200}
                \cup (IF req[p].Error # NoError
                      THEN {Resolved(req[p].Error).StatusCode} ELSE {})
                \cup (IF Len(req[p].Errors) > 0
                      THEN {DecidingStatus(req[p].Errors)} ELSE {})

C18_Witness ==
    /\ StatusWritten(1)
    /\ req[1].Errors = <<"e400", "e404">>
    /\ req[1].StatusCode = 201
    /\ req[1].Error = NoError
    /\ transferObjectError = EmptyTOE
    /\ DOMAIN errorManifest = {"e400", "e404", "e503"}
    /\ errorManifest["e400"].StatusCode = 400
    /\ errorManifest["e404"].StatusCode = 410
    /\ writers[1].Code = 400

\* C19: the body of a token, data or default response has no errors key:
\* the envelope's error list is empty unless the response is an error or a
\* multi-error response.
C19_NoErrors ==
    \A p \in Procs :
        /\ (Called(p) /\ Highest(req[p]) \in {"token", "data", "default"}) =>
              /\ Len(heap[transferObject].Errors) = 0
              /\ Wrote(p) => "errors" \notin BodyOf(p).keys
        /\ (Called(p) /\ Wrote(p) /\ "errors" \in BodyOf(p).keys) =>
              Highest(req[p]) \in {"error", "multi"}

C19_Witness ==
    /\ Called(1)
    /\ earlier = "multi"
    /\ Highest(req[1]) = "data"
    /\ Wrote(1)
    /\ BodyOf(1).keys = {"data", "meta"}
    /\ Len(heap[transferObject].Errors) = 0

\* C20: a multi-error response that no 5xx entry cuts short has the status
\* of the first resolved entry, in list order, whose status string parses
\* to an integer, and 400 if the status of no entry parses.
C20_FirstParsedStatus ==
    \A p \in Procs :
        (MultiCalled(p) /\ FivePositions(req[p].Errors) = {}) =>
            LET errs == req[p].Errors
                nums == Parsing(errs)
            IN  /\ Wrote(p)
                /\ Len(BodyOf(p).errors) = Len(errs)
                /\ nums # {} =>
                      writers[p].Code =
                          Atoi(BodyOf(p).errors[CHOOSE i \in nums :
                                                   \A j \in nums : i <= j].status)
                /\ nums = {} => writers[p].Code = 400

C20_Witness ==
    /\ MultiCalled(1)
    /\ transferObjectError = PhraseTOE
    /\ req[1].Errors = <<"e400", "e404">>
    /\ DOMAIN errorManifest = {"e400", "e404", "e503"}
    /\ errorManifest["e400"].StatusCode = 400
    /\ errorManifest["e404"].StatusCode = 404
    /\ Wrote(1)
    /\ Atoi(BodyOf(1).errors[1].status) < 0
    /\ BodyOf(1).errors[2].status = <<"4", "0", "4">>
    /\ writers[1].Code = 404

\* C21: when the manifest entry of the error has no StatusCode (0), the
\* error response is sent with status 400.
C21_UnsetStatus ==
    \A p \in Procs :
        (/\ Called(p)
         /\ Len(req[p].Errors) = 0
         /\ req[p].Error \in DOMAIN errorManifest
         /\ errorManifest[req[p].Error].StatusCode = 0) =>
            /\ ret[p] = "nil"
            /\ writers[p].Code = 400
            /\ Len(writers[p].Body) = 1

\* the errors that have no entry in the merged manifest
Absent == ErrKeys \ DOMAIN errorManifest

\* the texts of an error entry of a body
TextsOf(entry) == {entry.title, entry.detail, entry.about, entry.code}

\* C22: the responses to two errors that are both absent from the manifest
\* are the same in status, headers and body: the 500 "Internal Server
\* Error", in which the error's own text does not appear.
C22_SameFallback ==
    \A p \in Procs :
        (/\ Called(p)
         /\ Len(req[p].Errors) = 0
         /\ req[p].Error \in Absent) =>
            /\ Wrote(p)
            /\ writers[p].Code = 500
            /\ Len(BodyOf(p).errors) = 1
            /\ BodyOf(p).errors[1].title = "Internal Server Error"
            /\ req[p].Error \notin TextsOf(BodyOf(p).errors[1])
            /\ \A kv \in writers[p].Header : kv[2] # req[p].Error
            /\ \A other \in Absent :
                  writers[p] = BranchOn(given[p], transferObjectError, errorManifest,
                                        [req[p] EXCEPT !.Error = other], "error")

C22_Witness ==
    /\ Called(1)
    /\ Len(req[1].Errors) = 0
    /\ req[1].Error = "e404"
    /\ {"e404", "eMiss"} \subseteq Absent
    /\ Wrote(1)
    /\ writers[1].Code = 500
    /\ BodyOf(1).errors[1].keys = {"title", "status"}

\* C23: when the request's error is absent from the manifest and the
\* envelope can be encoded, the call returns nil and the 500 fallback is
\* written as any other response: status line and body, once each.
C23_FallbackReturnsNil ==
    \A p \in Procs :
        (/\ Called(p)
         /\ Len(req[p].Errors) = 0
         /\ req[p].Error # NoError
         /\ req[p].Error \notin DOMAIN errorManifest) =>
            /\ ret[p] = "nil"
            /\ Count(OwnLog(p), "WriteHeader") = 1
            /\ Count(OwnLog(p), "Write") = 1
            /\ writers[p].Code = 500

C23_Witness ==
    /\ Called(1)
    /\ fn[1] = "NewHTTPResponse"
    /\ Len(req[1].Errors) = 0
    /\ req[1].Error = "eMiss"
    /\ req[1].Data = "user"
    /\ errorManifest = EmptyManifest
    /\ ret[1] = "nil"
    /\ writers[1].Code = 500
    /\ OwnLog(1) = <<"Header.Set", "WriteHeader", "Write">>

\* in the log no operation of `later` comes before one of `sooner`
InOrder(log, sooner, later) ==
    \A i, j \in 1..Len(log) :
        (log[i] \in later /\ log[j] \in sooner) => j < i

\* C25: on the writer of a call every header is set before the status line
\* is written, and the status line is written before any byte of the body.
C25_HeadersStatusBody ==
    \A p \in Procs :
        /\ InOrder(OwnLog(p), {"Header.Set"}, {"WriteHeader", "Write"})
        /\ InOrder(OwnLog(p), {"WriteHeader"}, {"Write"})
        /\ (Called(p) /\ ret[p] = "nil") =>
              /\ Count(OwnLog(p), "Header.Set") =
                    Len(OwnLog(p)) - 2
              /\ SubSeq(OwnLog(p), Len(OwnLog(p)) - 1, Len(OwnLog(p)))
                    = <<"WriteHeader", "Write">>

C25_Witness ==
    /\ Called(1)
    /\ req[1].Headers = HeadersExample
    /\ given[1] = NewRecorder
    /\ OwnLog(1) = <<"Header.Set", "Header.Set", "WriteHeader", "Write">>
    /\ writers[1].Code = 201
    /\ Len(writers[1].Body) = 1

\* C27: once the call of a handler has returned, nothing reachable from the
\* Replier refers to the writer of that call.
C27_WriterReleased ==
    \A p \in Procs :
        pc[p] = "idle" => GetWriter(heap[transferObject]) # p

\* the partial manifests of the list that have an entry
NonEmpty(ms) == SelectSeq(ms, LAMBDA m : DOMAIN m # {})

\* C29: NewReplier returns a Replier for every list of partial manifests,
\* the empty list and a list with an empty partial included; the merged
\* manifest has the keys of the partials and no other, so an empty partial
\* adds no entry.
C29_EmptyPartials ==
    /\ rpc \in {"none", "built", "ready"}
    /\ rpc = "built" =>
          /\ DOMAIN errorManifest = UNION {DOMAIN manifests[i] : i \in 1..Len(manifests)}
          /\ errorManifest = mergeManifestCollections(NonEmpty(manifests))
          /\ NonEmpty(manifests) = <<>> => errorManifest = EmptyManifest

C29_Witness ==
    /\ rpc = "built"
    /\ manifests = <<EmptyManifest, PNotFound>>
    /\ errorManifest = PNotFound

\* the value of the last attribute of the kind in the list, `none` without one
RECURSIVE LastOf(_, _, _)
LastOf(attributes, kind, none) ==
    IF attributes = <<>> THEN none
    ELSE IF attributes[Len(attributes)].kind = kind
         THEN attributes[Len(attributes)].value
         ELSE LastOf(SubSeq(attributes, 1, Len(attributes) - 1), kind, none)

AideNames == {"NewHTTPErrorResponse", "NewHTTPDataResponse",
              "NewHTTPBlankResponse", "NewHTTPTokenResponse"}

\* the call of p is one of an aide that went on to NewHTTPResponse
AideCalled(p) ==
    /\ pc[p] = "done"
    /\ fn[p] \in AideNames
    /\ ~(fn[p] = "NewHTTPTokenResponse" /\ args[p].TokenOne = "" /\ args[p].TokenTwo = "")

\* the request of the positional arguments of p with the attributes of p
\* applied in order: of every kind the last one counts
Built(p) ==
    [args[p] EXCEPT !.Headers = LastOf(attrs[p], "WithHeaders", {}),
                    !.Meta = LastOf(attrs[p], "WithMeta", {})]

\* what NewHTTPResponse returns for the request
ReturnOf(toe, manifest, request) ==
    IF WriterMissing(request) THEN "error"
    ELSE sendHTTPResponseError(
            generateResponse(setUniversalAttributes(EmptyTO, request.Writer,
                                 request.Meta, request.StatusCode),
                             toe, manifest, request))

\* C26: an aide passes to NewHTTPResponse the request of its positional
\* arguments with the attributes applied in order, leaves the writer as
\* NewHTTPResponse leaves it for that request and returns what
\* NewHTTPResponse returns for it; it checks and writes nothing else.
C26_AideDelegates ==
    \A p \in Procs :
        AideCalled(p) =>
            /\ req[p] = Built(p)
            /\ ret[p] = ReturnOf(transferObjectError, errorManifest, Built(p))
            /\ writers[p] =
                  IF WriterMissing(Built(p)) THEN given[p]
                  ELSE BranchOn(given[p], transferObjectError, errorManifest,
                                Built(p), ResponseKind(Built(p)))

C26_Witness ==
    /\ AideCalled(1)
    /\ fn[1] = "NewHTTPDataResponse"
    /\ args[1] = Request(1, <<>>, NoError, "user", {}, {}, 201, "", "")
    /\ attrs[1] = <<WithMeta(MetaExample), WithHeaders(HeadersExample)>>
    /\ req[1].Meta = MetaExample
    /\ req[1].Headers = HeadersExample
    /\ ret[1] = "nil"
    /\ writers[1].Code = 201
    /\ BodyOf(1).keys = {"data", "meta"}
    /\ OwnLog(1) = <<"Header.Set", "Header.Set", "WriteHeader", "Write">>

\* C28: NewHTTPErrorResponse with a nil error and a writer answers as the
\* default branch does: status 200, body {"data":"{}"} (and the meta of a
\* WithMeta attribute), no error entry, and it returns nil.
C28_NilErrorAide ==
    \A p \in Procs :
        (/\ AideCalled(p)
         /\ fn[p] = "NewHTTPErrorResponse"
         /\ args[p].Error = NoError
         /\ args[p].Writer # NilWriter) =>
            /\ ret[p] = "nil"
            /\ writers[p].Code = 200
            /\ Len(writers[p].Body) = 1
            /\ "data" \in BodyOf(p).keys
            /\ BodyOf(p).data = "{}"
            /\ "errors" \notin BodyOf(p).keys
            /\ BodyOf(p).keys \subseteq {"data", "meta"}
            /\ LastOf(attrs[p], "WithMeta", {}) = {} => BodyOf(p).keys = {"data"}

C28_Witness ==
    /\ AideCalled(1)
    /\ fn[1] = "NewHTTPErrorResponse"
    /\ args[1].Error = NoError
    /\ args[1].Writer = 1
    /\ attrs[1] = <<>>
    /\ ret[1] = "nil"
    /\ writers[1].Code = 200
    /\ BodyOf(1).keys = {"data"}
    /\ BodyOf(1).data = "{}"

\* the headers as the writer keeps them
Canonical(headers) == {<<CanonicalMIMEHeaderKey(kv[1]), kv[2]>> : kv \in headers}

\* C30: of several WithHeaders attributes of an aide only the last counts:
\* the writer has the headers of the last map and the Content-Type default
\* if that map has no content type; no header of an earlier map is set.
C30_LastHeadersOnly ==
    \A p \in Procs :
        (AideCalled(p) /\ args[p].Writer # NilWriter) =>
            LET last == LastOf(attrs[p], "WithHeaders", {})
            IN  /\ req[p].Headers = last
                /\ writers[p].Header =
                      Canonical(last) \cup
                      (IF \E kv \in Canonical(last) : kv[1] = "Content-Type"
                       THEN {}
                       ELSE {<<"Content-Type", "application/json">>})

C30_Witness ==
    /\ AideCalled(1)
    /\ fn[1] = "NewHTTPDataResponse"
    /\ attrs[1] = <<WithHeaders(HeadersExample), WithHeaders(HeadersPlain)>>
    /\ ret[1] = "nil"
    /\ Len(writers[1].Body) = 1
    /\ writers[1].Header = {<<"Content-Type", "text/plain">>}

\* C24: NewHTTPErrorResponse with one error that wraps several manifest
\* errors answers as the multi-error branch does for those errors: one
\* entry for every wrapped error, and status 400 when every wrapped error
\* is mapped to 400.
C24_WrappedAsMulti ==
    \A p \in Procs : \A es \in WrappedLists :
        (/\ AideCalled(p)
         /\ fn[p] = "NewHTTPErrorResponse"
         /\ args[p].Error = Join(es)
         /\ \A i \in 1..Len(es) : es[i] \in DOMAIN errorManifest) =>
            /\ ret[p] = "nil"
            /\ Len(writers[p].Body) = 1
            /\ Len(BodyOf(p).errors) = Len(es)
            /\ writers[p] =
                  BranchOn(given[p], transferObjectError, errorManifest,
                           [req[p] EXCEPT !.Error = NoError, !.Errors = es], "multi")
            /\ (\A i \in 1..Len(es) : errorManifest[es[i]].StatusCode = 400) =>
                  writers[p].Code = 400

====
